---- MODULE Spec2Model ----
(***************************************************************************)
(* krun: leader election over $XDG_RUNTIME_DIR/krun.lock and forwarding of *)
(* launch requests to the leader (crates/krun/src/launch.rs).              *)
(*                                                                         *)
(* Text is a sequence of one-character strings.  A byte that is not valid  *)
(* UTF-8 is the character BadByte.  Option<T> is <<>> (None) or <<v>>      *)
(* (Some(v)).                                                              *)
(***************************************************************************)
EXTENDS Integers, Sequences, FiniteSets, TLC

\* ------------------------------------------------------------------ bounds
\* Number of OS processes racing on the same lock file.
NumProcs == 2
\* File-system failures (create, open, read, set_len, write) per behaviour.
MaxFaults == 1
\* Longest lock-file content drawn for the parsing specification.
MaxDataLen == 4
\* Longest command text drawn for the escaping specification.
MaxCmdLen == 3

Procs == 1 .. NumProcs

\* ------------------------------------------------------------------- text
None == <<>>
Some(v) == <<v>>

BadByte == "<FF>"
Replacement == "<FFFD>"

Digits == <<"0", "1", "2", "3", "4", "5", "6", "7", "8", "9">>

IsDigit(c) == \E i \in 1 .. 10 : Digits[i] = c

DigitValue(c) == (CHOOSE i \in 1 .. 10 : Digits[i] = c) - 1

\* format!("{n}") of an unsigned integer: decimal, no sign, no leading zero.
RECURSIVE Display(_)
Display(n) == IF n < 10 THEN <<Digits[n + 1]>>
              ELSE Display(n \div 10) \o <<Digits[(n % 10) + 1]>>

\* Vec<u8>::to_string_lossy: invalid bytes become U+FFFD.
to_string_lossy(bytes) ==
  [i \in 1 .. Len(bytes) |-> IF bytes[i] = BadByte THEN Replacement ELSE bytes[i]]

\* The digit loop of u32::from_str: None on a non-digit, else the value.
\* (Contents are short enough that the checked_mul/checked_add of the real
\* loop never overflow: see MaxDataLen.)
RECURSIVE ParseDigits(_, _)
ParseDigits(s, acc) ==
  IF s = <<>> THEN Some(acc)
  ELSE IF ~IsDigit(Head(s)) THEN None
  ELSE ParseDigits(Tail(s), acc * 10 + DigitValue(Head(s)))

\* str::parse::<u32>: empty fails, a lone sign fails, one leading "+" is
\* accepted, "-" is not (unsigned), every other character must be a digit.
ParseU32(s) ==
  IF s = <<>> THEN None
  ELSE IF Len(s) = 1 /\ Head(s) \in {"+", "-"} THEN None
  ELSE IF Head(s) = "+" THEN ParseDigits(Tail(s), 0)
  ELSE ParseDigits(s, 0)

\* The smallest value that is trusted as a published port is PortFloor + 1.
PortFloor == 1024

\* Variant of DiscoveredPort without the range test of 191.
DiscoveredPortWrong(data) == ParseU32(to_string_lossy(data))

\* launch.rs 189-198: the port reported for the contents read.
DiscoveredPort(data) ==
  LET parsed == ParseU32(to_string_lossy(data))
  IN IF parsed # None /\ parsed[1] > PortFloor THEN parsed ELSE None

\* Variant of set_len that leaves the file as it is.
set_len_kept(old, n) == old

\* File::set_len(n): the file is cut to n bytes, or extended with zero bytes.
set_len(old, n) ==
  IF n <= Len(old) THEN SubSeq(old, 1, n)
  ELSE old \o [i \in 1 .. (n - Len(old)) |-> "<00>"]

\* write_all at offset 0 of a file holding `old`.
WriteAtStart(old, bytes) ==
  IF Len(bytes) >= Len(old) THEN bytes
  ELSE bytes \o SubSeq(old, Len(bytes) + 1, Len(old))

\* ------------------------------------------------------------------ state
VARIABLES
  pc,               \* position of each process
  server_port,      \* lock_file / launch_or_lock argument: the candidate port
  XDG_RUNTIME_DIR,  \* per process: is the variable set
  lock_exists,      \* does $XDG_RUNTIME_DIR/krun.lock exist
  lock_data,        \* its contents
  flocked,          \* per process: its open file holds the exclusive flock
  data,             \* per process: Option of the contents read after a failed flock
  lf_ret,           \* per process: what lock_file returned
  file_ops,         \* per process: operations it performed on the lock file
  faults,           \* file-system failures so far
  KRUN_SERVER_PORT, \* per process: the environment variable as env::var sees it
  command,          \* launch_or_lock arguments
  command_args,
  env,
  interactive,
  mode,             \* per process: branch of launch_or_lock taken
  port,             \* per process: Option of the port requests are sent to
  prepared,         \* per process: Option of the map prepare_env_vars returned
  tries,            \* per process: the retry counter of launch_or_lock
  attempts,         \* per process: calls of wrapped_launch so far
  outcomes,         \* per process: what each wrapped_launch call returned
  request,          \* per process: the Launch passed to request_launch
  stream,           \* per process: operations on the last TcpStream, in order
  received,         \* per process: Option of the document the leader got last
  reply,            \* per process: Option of the response line read last
  rl_ret,           \* per process: Option of what request_launch returned last
  children,         \* per process: the relays it spawned: port, and whether
                    \* wait() was not called ("no"), reaped it ("yes") or failed
  socket_paths,     \* relay ports whose socket path exists
  socat_ret,        \* per process: what start_socat returned last
  result            \* per process: what launch_or_lock returned

lockVars == <<server_port, XDG_RUNTIME_DIR, lock_exists, lock_data, flocked,
              data, lf_ret, file_ops, faults>>

launchVars == <<KRUN_SERVER_PORT, command, command_args, env, interactive, mode,
                port, prepared, tries, attempts, outcomes, request, stream,
                received, reply, rl_ret, children, socket_paths, socat_ret,
                result>>

vars == <<pc, lockVars, launchVars>>

\* Candidate ports of the processes; 42 is in the privileged range.
CandidatePorts == {42, 5000, 60000}

NoReturn == [tag |-> "none", file |-> FALSE, port |-> None, err |-> ""]
LfOk(file, found) == [tag |-> "Ok", file |-> file, port |-> found, err |-> ""]
LfErr(msg) == [tag |-> "Err", file |-> FALSE, port |-> None, err |-> msg]

ErrRuntimeDir == "Failed to read XDG_RUNTIME_DIR environment variable"
ErrCreate == "Failed to create lock file"
ErrNewLock == "Failed to acquire exclusive lock on new lock file"
ErrIo == "io error"

\* Variant of FlockGranted: a lock that is granted whoever holds it.
FlockGrantedAlways(p) == TRUE

\* 176, 185: flock(NonBlockingLockExclusive) on p's open file succeeds iff no
\* other open file description holds the lock.
FlockGranted(p) == \A q \in Procs \ {p} : ~flocked[q]

MayFault == faults < MaxFaults

\* ------------------------------------------------------- lock_file (169-207)
\* 170-174: read XDG_RUNTIME_DIR, build the path, test whether it exists.
LfExists(p) ==
  /\ pc[p] = "lf_exists"
  /\ IF ~XDG_RUNTIME_DIR[p]
       THEN /\ pc' = [pc EXCEPT ![p] = "lf_ret"]
            /\ lf_ret' = [lf_ret EXCEPT ![p] = LfErr(ErrRuntimeDir)]
       ELSE /\ pc' = [pc EXCEPT ![p] = IF lock_exists THEN "lf_flock" ELSE "lf_create"]
            /\ UNCHANGED lf_ret
  /\ UNCHANGED <<launchVars, server_port, XDG_RUNTIME_DIR, lock_exists, lock_data, flocked,
                 data, file_ops, faults>>

\* 175: File::create opens with O_CREAT | O_TRUNC: an existing file is emptied.
LfCreate(p) ==
  /\ pc[p] = "lf_create"
  /\ lock_exists' = TRUE
  /\ lock_data' = <<>>
  /\ file_ops' = [file_ops EXCEPT ![p] = @ \cup {"create"}]
  /\ pc' = [pc EXCEPT ![p] = "lf_flock_new"]
  /\ UNCHANGED <<launchVars, server_port, XDG_RUNTIME_DIR, flocked, data, lf_ret, faults>>

\* 175: File::create fails.
LfCreateFail(p) ==
  /\ pc[p] = "lf_create"
  /\ MayFault
  /\ faults' = faults + 1
  /\ pc' = [pc EXCEPT ![p] = "lf_ret"]
  /\ lf_ret' = [lf_ret EXCEPT ![p] = LfErr(ErrCreate)]
  /\ UNCHANGED <<launchVars, server_port, XDG_RUNTIME_DIR, lock_exists, lock_data, flocked,
                 data, file_ops>>

\* 176-178: non-blocking exclusive flock on the file just created; on failure `?`
\* returns the error and the file is dropped.
LfFlockNew(p) ==
  /\ pc[p] = "lf_flock_new"
  /\ file_ops' = [file_ops EXCEPT ![p] = @ \cup {"flock"}]
  /\ IF FlockGranted(p)
       THEN /\ flocked' = [flocked EXCEPT ![p] = TRUE]
            /\ pc' = [pc EXCEPT ![p] = "lf_set_len"]
            /\ UNCHANGED lf_ret
       ELSE /\ pc' = [pc EXCEPT ![p] = "lf_ret"]
            /\ lf_ret' = [lf_ret EXCEPT ![p] = LfErr(ErrNewLock)]
            /\ UNCHANGED flocked
  /\ UNCHANGED <<launchVars, server_port, XDG_RUNTIME_DIR, lock_exists, lock_data, data, faults>>

\* 180-186: open the existing file read+write and try the flock.
LfFlock(p) ==
  /\ pc[p] = "lf_flock"
  /\ file_ops' = [file_ops EXCEPT ![p] = @ \cup {"open", "flock"}]
  /\ IF FlockGranted(p)
       THEN /\ flocked' = [flocked EXCEPT ![p] = TRUE]
            /\ pc' = [pc EXCEPT ![p] = "lf_set_len"]
       ELSE /\ pc' = [pc EXCEPT ![p] = "lf_read"]
            /\ UNCHANGED flocked
  /\ UNCHANGED <<launchVars, server_port, XDG_RUNTIME_DIR, lock_exists, lock_data, data,
                 lf_ret, faults>>

\* 180-184: the open fails.
LfOpenFail(p) ==
  /\ pc[p] = "lf_flock"
  /\ MayFault
  /\ faults' = faults + 1
  /\ pc' = [pc EXCEPT ![p] = "lf_ret"]
  /\ lf_ret' = [lf_ret EXCEPT ![p] = LfErr(ErrCreate)]
  /\ UNCHANGED <<launchVars, server_port, XDG_RUNTIME_DIR, lock_exists, lock_data, flocked,
                 data, file_ops>>

\* 187-199: the lock is taken by someone else: read the whole file, parse it,
\* return (None, port).
LfRead(p) ==
  /\ pc[p] = "lf_read"
  /\ data' = [data EXCEPT ![p] = Some(lock_data)]
  /\ file_ops' = [file_ops EXCEPT ![p] = @ \cup {"read"}]
  /\ lf_ret' = [lf_ret EXCEPT ![p] = LfOk(FALSE, DiscoveredPort(lock_data))]
  /\ pc' = [pc EXCEPT ![p] = "lf_ret"]
  /\ UNCHANGED <<launchVars, server_port, XDG_RUNTIME_DIR, lock_exists, lock_data, flocked, faults>>

\* 188: read_to_end fails.
LfReadFail(p) ==
  /\ pc[p] = "lf_read"
  /\ MayFault
  /\ faults' = faults + 1
  /\ pc' = [pc EXCEPT ![p] = "lf_ret"]
  /\ lf_ret' = [lf_ret EXCEPT ![p] = LfErr(ErrIo)]
  /\ UNCHANGED <<launchVars, server_port, XDG_RUNTIME_DIR, lock_exists, lock_data, flocked,
                 data, file_ops>>

\* 204: set_len(0).
LfSetLen(p) ==
  /\ pc[p] = "lf_set_len"
  /\ lock_data' = set_len(lock_data, 0)
  /\ file_ops' = [file_ops EXCEPT ![p] = @ \cup {"set_len"}]
  /\ pc' = [pc EXCEPT ![p] = "lf_write"]
  /\ UNCHANGED <<launchVars, server_port, XDG_RUNTIME_DIR, lock_exists, flocked, data, lf_ret, faults>>

\* 205-206: write the candidate port at offset 0 and return the locked file.
LfWrite(p) ==
  /\ pc[p] = "lf_write"
  /\ lock_data' = WriteAtStart(lock_data, Display(server_port[p]))
  /\ file_ops' = [file_ops EXCEPT ![p] = @ \cup {"write"}]
  /\ lf_ret' = [lf_ret EXCEPT ![p] = LfOk(TRUE, None)]
  /\ pc' = [pc EXCEPT ![p] = "lf_ret"]
  /\ UNCHANGED <<launchVars, server_port, XDG_RUNTIME_DIR, lock_exists, flocked, data, faults>>

\* 204-205: set_len or write_all fails; `?` returns, the file is dropped and the
\* flock goes with it.
LfTruncateOrWriteFail(p) ==
  /\ pc[p] \in {"lf_set_len", "lf_write"}
  /\ MayFault
  /\ faults' = faults + 1
  /\ flocked' = [flocked EXCEPT ![p] = FALSE]
  /\ pc' = [pc EXCEPT ![p] = "lf_ret"]
  /\ lf_ret' = [lf_ret EXCEPT ![p] = LfErr(ErrIo)]
  /\ UNCHANGED <<launchVars, server_port, XDG_RUNTIME_DIR, lock_exists, lock_data, data, file_ops>>

\* The owner of a returned lock file drops it (21-29: LockAcquired hands the
\* File to the caller; closing it or exiting releases the flock).
DropLockFile(p) ==
  /\ pc[p] \in {"lf_ret", "done"}
  /\ flocked[p]
  /\ flocked' = [flocked EXCEPT ![p] = FALSE]
  /\ pc' = [pc EXCEPT ![p] = "exited"]
  /\ UNCHANGED <<launchVars, server_port, XDG_RUNTIME_DIR, lock_exists, lock_data, data,
                 lf_ret, file_ops, faults>>

LockFileStep(p) ==
  \/ LfExists(p)
  \/ LfCreate(p)
  \/ LfCreateFail(p)
  \/ LfFlockNew(p)
  \/ LfFlock(p)
  \/ LfOpenFail(p)
  \/ LfRead(p)
  \/ LfReadFail(p)
  \/ LfSetLen(p)
  \/ LfWrite(p)
  \/ LfTruncateOrWriteFail(p)
  \/ DropLockFile(p)

\* ----------------------------------------------------- environment (env.rs)
\* env::var: NotPresent, NotUnicode, or the value.
Unset == [tag |-> "NotPresent", val |-> <<>>]
NotUnicode == [tag |-> "NotUnicode", val |-> <<>>]
Set(v) == [tag |-> "Ok", val |-> v]

\* Result::ok() on env::var: both errors become None.
EnvVarOk(v) == IF v.tag = "Ok" THEN Some(v.val) ELSE None

\* The variables set in the environment of the processes.
HostEnv == ("PATH" :> "/usr/bin") @@ ("DISPLAY" :> ":0")

WELL_KNOWN_ENV_VARS ==
  {"LD_LIBRARY_PATH", "LIBGL_DRIVERS_PATH", "MESA_LOADER_DRIVER_OVERRIDE", "PATH",
   "RUST_LOG"}

Insert(map, k, v) == [x \in (DOMAIN map) \cup {k} |-> IF x = k THEN v ELSE map[x]]

\* env.rs 28-58: the well-known variables that are set (no device tree here).
WellKnown ==
  [k \in {x \in WELL_KNOWN_ENV_VARS : x \in DOMAIN HostEnv} |-> HostEnv[k]]

\* env.rs 60-66: a (key, None) takes the value from the environment and fails
\* when the variable is not set.
RECURSIVE Overrides(_, _)
Overrides(map, e) ==
  IF e = <<>> THEN Some(map)
  ELSE LET kv == Head(e)
       IN IF kv.value # None THEN Overrides(Insert(map, kv.key, kv.value[1]), Tail(e))
          ELSE IF kv.key \in DOMAIN HostEnv
                 THEN Overrides(Insert(map, kv.key, HostEnv[kv.key]), Tail(e))
          ELSE None

\* env.rs 71-79.
WithDisplay(map) ==
  IF "DISPLAY" \notin DOMAIN HostEnv THEN map
  ELSE LET m == Insert(map, "HOST_DISPLAY", HostEnv["DISPLAY"])
       IN IF "XAUTHORITY" \in DOMAIN HostEnv
            THEN Insert(m, "XAUTHORITY", HostEnv["XAUTHORITY"])
            ELSE m

\* launch.rs 15, 122, 139 call crate::env::prepare_env_vars; env.rs holds it as
\* prepare_vm_env_vars.  None is the error.
prepare_env_vars(e) ==
  LET m == Overrides(WellKnown, e)
  IN IF m = None THEN None ELSE Some(WithDisplay(m[1]))

\* ------------------------------------------------------------- relay (56-88)
RangeStart == 50000
RangeEnd == 50200
DYNAMIC_PORT_RANGE == RangeStart .. (RangeEnd - 1)

\* Variant of SpecialChars without the opening brace.
SpecialCharsShort == {":", ",", "!", "\"", "'", "\\", "(", "["}

\* 80: the characters that get a backslash.
SpecialChars == {":", ",", "!", "\"", "'", "\\", "(", "[", "{"}

RECURSIVE escape_for_socat(_)
escape_for_socat(s) ==
  IF s = <<>> THEN <<>>
  ELSE (IF Head(s) \in SpecialChars THEN <<"\\", Head(s)>> ELSE <<Head(s)>>)
         \o escape_for_socat(Tail(s))

\* Variant of Join that puts nothing between the strings.
RECURSIVE JoinTight(_)
JoinTight(strs) ==
  IF strs = <<>> THEN <<>> ELSE strs[1] \o JoinTight(Tail(strs))

\* [String]::join(" ").
RECURSIVE Join(_)
Join(strs) ==
  IF strs = <<>> THEN <<>>
  ELSE IF Len(strs) = 1 THEN strs[1]
  ELSE strs[1] \o <<" ">> \o Join(Tail(strs))

SocatCommand == <<"s", "o", "c", "a", "t">>
VsockPrefix == <<"v", "s", "o", "c", "k", ":", "2", ":">>
ExecPrefix == <<"e", "x", "e", "c", ":">>
ExecSuffix ==
  <<",", "p", "t", "y", ",", "s", "e", "t", "s", "i", "d", ",", "s", "t", "d", "e", "r", "r">>

Launch(c, a, e) == [command |-> c, command_args |-> a, env |-> e]

\* 101-106: the request of an interactive launch.
RelayRequest(c, a, e, vsock_port) ==
  Launch(SocatCommand,
         << VsockPrefix \o Display(vsock_port),
            ExecPrefix \o escape_for_socat(Join(<<to_string_lossy(c)>> \o a))
              \o ExecSuffix >>,
         e)

NoSocat == [tag |-> "none", port |-> None, err |-> ""]
SocatOk(n) == [tag |-> "Ok", port |-> Some(n), err |-> ""]
SocatErr(msg) == [tag |-> "Err", port |-> None, err |-> msg]

ErrSocatRuntimeDir == "unable to get XDG_RUNTIME_DIR"
ErrNoSocat == "Unable to find socat in PATH"
ErrSpawn == "spawn failed"
ErrOutOfPorts == "Ran out of ports."

FreePorts == {n \in DYNAMIC_PORT_RANGE : n \notin socket_paths}

\* Variant of FirstFree: the last port of the range that is free.
FirstFreeLast == CHOOSE n \in FreePorts : \A m \in FreePorts : n >= m

\* 62-66: the first port of the range whose socket path does not exist.
FirstFree == CHOOSE n \in FreePorts : \A m \in FreePorts : n <= m

\* ------------------------------------------------- request_launch (209-247)
\* serde_json::to_string(&launch): a PathBuf that is not UTF-8 is an error
\* (None); otherwise the JSON object with its keys in declaration order.
to_string(launch) ==
  IF \E i \in 1 .. Len(launch.command) : launch.command[i] = BadByte THEN None
  ELSE Some(<< <<"command", launch.command>>,
               <<"command_args", launch.command_args>>,
               <<"env", launch.env>> >>)

\* BufRead::read_line: everything up to and including the first newline, or
\* all that came before the peer closed.
RECURSIVE read_line(_)
read_line(bytes) ==
  IF bytes = <<>> THEN <<>>
  ELSE IF Head(bytes) = "\n" THEN <<"\n">>
  ELSE <<Head(bytes)>> \o read_line(Tail(bytes))

OK == <<"O", "K">>

\* What a leader may send before it closes the connection.
Replies == { OK \o <<"\n">>, OK, <<>>, <<"n", "o", "\n">> }

\* Where an I/O call of request_launch may fail.
FailPoints == {"connect", "write_json", "write_eom", "flush", "read_line"}

\* What the network and the leader do to one exchange: an I/O call fails, or
\* none does and the leader sends `bytes`.
Exchanges ==
  {[fail |-> f, bytes |-> <<>>] : f \in FailPoints}
    \cup {[fail |-> "none", bytes |-> b] : b \in Replies}

\* 242: the comparison that decides success.
IsOk(resp) == resp = OK

\* Variant of Exchange that reads the response before it sends the sentinel.
ExchangeReadFirst(launch, fail, bytes) ==
  [stream |-> <<"connect", "write_json", "read_line", "write_eom", "flush", "close">>,
   kind |-> "Server", received |-> to_string(launch), reply |-> Some(read_line(bytes))]

\* 215-246 as one exchange: the operations on the stream in order, the error
\* class, what the leader got and the line read.
Exchange(launch, fail, bytes) ==
  LET doc == to_string(launch)
      X(ops, kind, got, line) ==
        [stream |-> ops, kind |-> kind, received |-> got, reply |-> line]
  IN IF fail = "connect" THEN X(<<"connect:err">>, "Connection", None, None)
     ELSE IF doc = None THEN X(<<"connect", "close">>, "Json", None, None)
     ELSE IF fail = "write_json"
       THEN X(<<"connect", "write_json:err", "close">>, "Connection", None, None)
     ELSE IF fail = "write_eom"
       THEN X(<<"connect", "write_json", "write_eom:err", "close">>, "Connection",
              None, None)
     ELSE IF fail = "flush"
       THEN X(<<"connect", "write_json", "write_eom", "flush:err", "close">>,
              "Connection", None, None)
     ELSE IF fail = "read_line"
       THEN X(<<"connect", "write_json", "write_eom", "flush", "read_line:err", "close">>,
              "Connection", doc, None)
     ELSE X(<<"connect", "write_json", "write_eom", "flush", "read_line", "close">>,
            IF IsOk(read_line(bytes)) THEN "Ok" ELSE "Server",
            doc, Some(read_line(bytes)))

\* ------------------------------------------------- launch_or_lock (112-167)
NoResult == [tag |-> "none", err |-> "", lock_file |-> FALSE, command |-> <<>>,
             command_args |-> <<>>, env |-> <<>>]
LaunchRequested == [NoResult EXCEPT !.tag = "LaunchRequested"]
Failed(msg) == [NoResult EXCEPT !.tag = "Err", !.err = msg]
\* Variant of LockAcquired that carries the map prepare_env_vars builds.
LockAcquiredPrepared(p) ==
  [tag |-> "LockAcquired", err |-> "", lock_file |-> TRUE, command |-> command[p],
   command_args |-> command_args[p], env |-> prepare_env_vars(env[p])]

\* 131-136.
LockAcquired(p) ==
  [tag |-> "LockAcquired", err |-> "", lock_file |-> TRUE, command |-> command[p],
   command_args |-> command_args[p], env |-> env[p]]

ErrParsePort == "invalid digit found in string"
ErrEnv == "Failed to get env var"
ErrLaunch == "could not request launch to server"
ErrNoPort == "krun is already running but couldn't find its server port, bailing out"

\* 145: the value of `tries` at which a Connection error is fatal.
MaxRetries == 3

\* Variant of IsConnection that also matches a Server error.
IsConnectionOrServer(kind) == kind \in {"Connection", "Server"}

\* 143-144: err.downcast_ref::<LaunchError>() is Some(Connection(_)).
IsConnection(kind) == kind = "Connection"

\* Variant of RetriesExhausted that gives up one retry earlier.
RetriesExhaustedEarly(t) == t = MaxRetries - 1

\* Variant of RetriesExhausted that allows one retry more.
RetriesExhaustedLate(t) == t = MaxRetries + 1

\* 145: tries == 3.
RetriesExhausted(t) == t = MaxRetries

\* Variant of Retries: the Follower path loops as well.
RetriesAlways(m) == TRUE

\* 123-126 has no loop; 141-159 loops.
Retries(m) == m = "LosingCandidate"

\* wrapped_launch returned `kind` to launch_or_lock (123-126, 142-158).
WrappedLaunchReturns(p, kind) ==
  /\ outcomes' = [outcomes EXCEPT ![p] = Append(@, kind)]
  /\ IF kind = "Ok"
       THEN /\ result' = [result EXCEPT ![p] = LaunchRequested]
            /\ pc' = [pc EXCEPT ![p] = "done"]
            /\ UNCHANGED tries
       ELSE IF Retries(mode[p]) /\ IsConnection(kind) /\ ~RetriesExhausted(tries[p])
         THEN /\ tries' = [tries EXCEPT ![p] = @ + 1]
              /\ pc' = [pc EXCEPT ![p] = "wrapped_launch"]
              /\ UNCHANGED result
       ELSE /\ result' = [result EXCEPT ![p] = Failed(ErrLaunch)]
            /\ pc' = [pc EXCEPT ![p] = "done"]
            /\ UNCHANGED tries

inputVars == <<KRUN_SERVER_PORT, command, command_args, env, interactive>>

\* 119-127: KRUN_SERVER_PORT names the server, or lock_file is called (129).
LaunchOrLock(p) ==
  /\ pc[p] = "launch_or_lock"
  /\ LET known == EnvVarOk(KRUN_SERVER_PORT[p])
         parsed == IF known = None THEN None ELSE ParseU32(known[1])
         e == prepare_env_vars(env[p])
     IN IF known = None
          THEN /\ pc' = [pc EXCEPT ![p] = "lf_exists"]
               /\ UNCHANGED <<mode, port, prepared, result>>
          ELSE /\ mode' = [mode EXCEPT ![p] = "Follower"]
               /\ IF parsed = None
                    THEN /\ result' = [result EXCEPT ![p] = Failed(ErrParsePort)]
                         /\ pc' = [pc EXCEPT ![p] = "done"]
                         /\ UNCHANGED <<port, prepared>>
                    ELSE IF e = None
                      THEN /\ result' = [result EXCEPT ![p] = Failed(ErrEnv)]
                           /\ pc' = [pc EXCEPT ![p] = "done"]
                           /\ UNCHANGED <<port, prepared>>
                    ELSE /\ port' = [port EXCEPT ![p] = parsed]
                         /\ prepared' = [prepared EXCEPT ![p] = e]
                         /\ pc' = [pc EXCEPT ![p] = "wrapped_launch"]
                         /\ UNCHANGED result
  /\ UNCHANGED <<lockVars, inputVars, socat_ret, tries, attempts, outcomes, request, stream,
                 received, reply, rl_ret, children, socket_paths>>

\* 129-166: lock_file has returned to launch_or_lock.
LolMatch(p) ==
  /\ pc[p] = "lf_ret"
  /\ LET r == lf_ret[p]
         e == prepare_env_vars(env[p])
     IN IF r.tag = "Err"
          THEN /\ result' = [result EXCEPT ![p] = Failed(r.err)]
               /\ pc' = [pc EXCEPT ![p] = "done"]
               /\ UNCHANGED <<mode, port, prepared>>
          ELSE IF r.file
            THEN /\ result' = [result EXCEPT ![p] = LockAcquired(p)]
                 /\ mode' = [mode EXCEPT ![p] = "CandidateLeader"]
                 /\ pc' = [pc EXCEPT ![p] = "done"]
                 /\ UNCHANGED <<port, prepared>>
          ELSE IF r.port = None
            THEN /\ result' = [result EXCEPT ![p] = Failed(ErrNoPort)]
                 /\ pc' = [pc EXCEPT ![p] = "done"]
                 /\ UNCHANGED <<mode, port, prepared>>
          ELSE /\ mode' = [mode EXCEPT ![p] = "LosingCandidate"]
               /\ IF e = None
                    THEN /\ result' = [result EXCEPT ![p] = Failed(ErrEnv)]
                         /\ pc' = [pc EXCEPT ![p] = "done"]
                         /\ UNCHANGED <<port, prepared>>
                    ELSE /\ port' = [port EXCEPT ![p] = r.port]
                         /\ prepared' = [prepared EXCEPT ![p] = e]
                         /\ pc' = [pc EXCEPT ![p] = "wrapped_launch"]
                         /\ UNCHANGED result
  /\ UNCHANGED <<lockVars, inputVars, socat_ret, tries, attempts, outcomes, request, stream,
                 received, reply, rl_ret, children, socket_paths>>

\* ------------------------------------------------- wrapped_launch (90-110)
\* 97-99: one call of wrapped_launch begins.
WrappedLaunch(p) ==
  /\ pc[p] = "wrapped_launch"
  /\ attempts' = [attempts EXCEPT ![p] = @ + 1]
  /\ request' = [request EXCEPT ![p] =
                   Some(Launch(command[p], command_args[p], prepared[p][1]))]
  /\ pc' = [pc EXCEPT ![p] = IF interactive[p] THEN "start_socat" ELSE "request_launch"]
  /\ UNCHANGED <<lockVars, inputVars, socat_ret, mode, port, prepared, tries, outcomes, stream,
                 received, reply, rl_ret, children, socket_paths, result>>

\* 56-74, 100-106: start_socat spawns the relay on the first free port and the
\* request is rewritten.
StartSocat(p) ==
  /\ pc[p] = "start_socat"
  /\ XDG_RUNTIME_DIR[p]
  /\ FreePorts # {}
  /\ children' = [children EXCEPT ![p] =
                    Append(@, [port |-> FirstFree, waited |-> "no"])]
  /\ socat_ret' = [socat_ret EXCEPT ![p] = SocatOk(FirstFree)]
  /\ request' = [request EXCEPT ![p] =
                   Some(RelayRequest(command[p], command_args[p], prepared[p][1],
                                     FirstFree))]
  /\ pc' = [pc EXCEPT ![p] = "request_launch"]
  /\ UNCHANGED <<lockVars, inputVars, mode, port, prepared, tries, attempts,
                 outcomes, stream, received, reply, rl_ret, socket_paths, result>>

\* 57-61, 70, 73: XDG_RUNTIME_DIR unset, socat not in PATH, spawn failed, or no
\* port left; `?` at 100 returns the error, which is no LaunchError.
StartSocatFail(p) ==
  /\ pc[p] = "start_socat"
  /\ \E why \in {ErrSocatRuntimeDir, ErrNoSocat, ErrSpawn, ErrOutOfPorts} :
       /\ why = ErrSocatRuntimeDir => ~XDG_RUNTIME_DIR[p]
       /\ why # ErrSocatRuntimeDir => XDG_RUNTIME_DIR[p]
       /\ why = ErrOutOfPorts => FreePorts = {}
       /\ why = ErrSpawn => FreePorts # {}
       /\ socat_ret' = [socat_ret EXCEPT ![p] = SocatErr(why)]
  /\ WrappedLaunchReturns(p, "Other")
  /\ UNCHANGED <<lockVars, inputVars, mode, port, prepared, attempts, request,
                 stream, received, reply, rl_ret, children, socket_paths>>

\* 98, 107, 209-247: request_launch; on an error of an interactive launch `?`
\* returns at once.
RequestLaunch(p) ==
  /\ pc[p] = "request_launch"
  /\ \E net \in Exchanges :
       LET x == Exchange(request[p][1], net.fail, net.bytes)
       IN /\ stream' = [stream EXCEPT ![p] = x.stream]
          /\ received' = [received EXCEPT ![p] = x.received]
          /\ reply' = [reply EXCEPT ![p] = x.reply]
          /\ rl_ret' = [rl_ret EXCEPT ![p] = Some(x.kind)]
          /\ IF interactive[p] /\ x.kind = "Ok"
               THEN /\ pc' = [pc EXCEPT ![p] = "wait"]
                    /\ UNCHANGED <<tries, outcomes, result>>
               ELSE WrappedLaunchReturns(p, x.kind)
  /\ UNCHANGED <<lockVars, inputVars, socat_ret, mode, port, prepared, attempts, request,
                 children, socket_paths>>

\* 108-109: socat.wait(); the relay has exited and is reaped, or wait fails.
SocatWait(p) ==
  /\ pc[p] = "wait"
  /\ \E ok \in BOOLEAN :
       /\ children' = [children EXCEPT ![p][Len(children[p])].waited =
                         IF ok THEN "yes" ELSE "error"]
       /\ WrappedLaunchReturns(p, IF ok THEN "Ok" ELSE "Other")
  /\ UNCHANGED <<lockVars, inputVars, socat_ret, mode, port, prepared, attempts, request,
                 stream, received, reply, rl_ret, socket_paths>>

\* 68: a spawned relay (socat unix-l:<path>) creates its socket path.
RelayBind(p) ==
  /\ \E i \in 1 .. Len(children[p]) :
       /\ children[p][i].waited # "yes"
       /\ children[p][i].port \notin socket_paths
       /\ socket_paths' = socket_paths \cup {children[p][i].port}
  /\ UNCHANGED <<pc, lockVars, inputVars, socat_ret, mode, port, prepared, tries, attempts,
                 outcomes, request, stream, received, reply, rl_ret, children, result>>

LaunchStep(p) ==
  \/ LaunchOrLock(p)
  \/ LolMatch(p)
  \/ WrappedLaunch(p)
  \/ StartSocat(p)
  \/ StartSocatFail(p)
  \/ RequestLaunch(p)
  \/ SocatWait(p)
  \/ RelayBind(p)

\* The launch inputs drawn: a plain command, one whose text needs escaping, and
\* a path that is not UTF-8.
LaunchInputs ==
  { [command |-> <<"l", "s">>, command_args |-> <<>>],
    [command |-> <<"a", ":", "b">>, command_args |-> << <<"c", ",", "d">>, <<"!">> >>],
    [command |-> <<"x", BadByte>>, command_args |-> << <<"y">> >>] }

EnvInputs ==
  { << [key |-> "FOO", value |-> Some("1")], [key |-> "PATH", value |-> None] >>,
    << [key |-> "BAR", value |-> None] >> }

ServerPortValues ==
  {Unset, NotUnicode, Set(<<"5", "0", "0", "0">>), Set(<<"x">>)}

SocketPathInputs == {{}, {RangeStart, RangeStart + 1}, DYNAMIC_PORT_RANGE}

\* No launch is in progress: the state of a process that calls lock_file itself.
InitNoLaunch ==
  /\ KRUN_SERVER_PORT = [p \in Procs |-> Unset]
  /\ command = [p \in Procs |-> <<"l", "s">>]
  /\ command_args = [p \in Procs |-> <<>>]
  /\ env = [p \in Procs |-> <<>>]
  /\ interactive = [p \in Procs |-> FALSE]
  /\ mode = [p \in Procs |-> ""]
  /\ port = [p \in Procs |-> None]
  /\ prepared = [p \in Procs |-> None]
  /\ tries = [p \in Procs |-> 0]
  /\ attempts = [p \in Procs |-> 0]
  /\ outcomes = [p \in Procs |-> <<>>]
  /\ request = [p \in Procs |-> None]
  /\ stream = [p \in Procs |-> <<>>]
  /\ received = [p \in Procs |-> None]
  /\ reply = [p \in Procs |-> None]
  /\ rl_ret = [p \in Procs |-> None]
  /\ children = [p \in Procs |-> <<>>]
  /\ socket_paths = {}
  /\ socat_ret = [p \in Procs |-> NoSocat]
  /\ result = [p \in Procs |-> NoResult]

\* ------------------------------------------------- racing lock_file callers
\* Every process calls lock_file with its own candidate port.  The lock file
\* is missing, or was left behind, unlocked, by an earlier leader.
InitLockFile ==
  \/ lock_exists = FALSE /\ lock_data = <<>>
  \/ lock_exists = TRUE /\ \E c \in CandidatePorts : lock_data = Display(c)

Init ==
  /\ pc = [p \in Procs |-> "lf_exists"]
  /\ server_port \in [Procs -> CandidatePorts]
  /\ XDG_RUNTIME_DIR = [p \in Procs |-> TRUE]
  /\ InitLockFile
  /\ flocked = [p \in Procs |-> FALSE]
  /\ data = [p \in Procs |-> None]
  /\ lf_ret = [p \in Procs |-> NoReturn]
  /\ file_ops = [p \in Procs |-> {}]
  /\ faults = 0
  /\ InitNoLaunch

Next == \E p \in Procs : LockFileStep(p)

Spec == Init /\ [][Next]_vars

\* ------------------------------------------------ one launch_or_lock caller
\* Process 1 calls launch_or_lock with inputs drawn from the sets above.  Of
\* the other processes at most one is in play: the leader, whose launch_or_lock
\* returned LockAcquired after it wrote its port (lock_file 204-206, 131-136).
\* Without a leader the lock file is missing or left behind by an earlier one.
InitLaunch ==
  /\ \E leader \in Procs \cup {0} :
       /\ leader # 1
       /\ pc = [p \in Procs |-> IF p = 1 THEN "launch_or_lock"
                                ELSE IF p = leader THEN "done" ELSE "exited"]
       /\ flocked = [p \in Procs |-> p = leader]
       /\ file_ops = [p \in Procs |-> IF p = leader
                                        THEN {"open", "flock", "set_len", "write"}
                                        ELSE {}]
       /\ lf_ret = [p \in Procs |-> IF p = leader THEN LfOk(TRUE, None) ELSE NoReturn]
       /\ mode = [p \in Procs |-> IF p = leader THEN "CandidateLeader" ELSE ""]
       /\ server_port \in [Procs -> CandidatePorts]
       /\ \A q \in Procs \ {1, leader} : server_port[q] = server_port[1]
       /\ IF leader = 0 THEN InitLockFile
          ELSE lock_exists = TRUE /\ lock_data = Display(server_port[leader])
       /\ \E v \in ServerPortValues, in \in LaunchInputs, e \in EnvInputs, i \in BOOLEAN :
            /\ KRUN_SERVER_PORT = [p \in Procs |-> IF p = 1 THEN v ELSE Unset]
            /\ command = [p \in Procs |-> IF p = 1 THEN in.command ELSE <<"l", "s">>]
            /\ command_args = [p \in Procs |-> IF p = 1 THEN in.command_args ELSE <<>>]
            /\ env = [p \in Procs |-> IF p = 1 THEN e ELSE <<>>]
            /\ interactive = [p \in Procs |-> p = 1 /\ i]
       /\ result = [p \in Procs |-> IF p = leader THEN LockAcquired(p) ELSE NoResult]
  /\ XDG_RUNTIME_DIR \in [Procs -> BOOLEAN]
  /\ \A q \in Procs \ {1} : XDG_RUNTIME_DIR[q]
  /\ data = [p \in Procs |-> None]
  /\ faults = 0
  /\ port = [p \in Procs |-> None]
  /\ prepared = [p \in Procs |-> None]
  /\ tries = [p \in Procs |-> 0]
  /\ attempts = [p \in Procs |-> 0]
  /\ outcomes = [p \in Procs |-> <<>>]
  /\ request = [p \in Procs |-> None]
  /\ stream = [p \in Procs |-> <<>>]
  /\ received = [p \in Procs |-> None]
  /\ reply = [p \in Procs |-> None]
  /\ rl_ret = [p \in Procs |-> None]
  /\ children = [p \in Procs |-> <<>>]
  /\ socket_paths \in SocketPathInputs
  /\ socat_ret = [p \in Procs |-> NoSocat]

NextLaunch == \E p \in Procs : LockFileStep(p) \/ LaunchStep(p)

SpecLaunch == InitLaunch /\ [][NextLaunch]_vars

\* A step of the call p is in: the code is synchronous, so a process that is
\* scheduled and whose blocking calls (connect, write, read, wait) return goes
\* on to its next statement.  The exit of a process is not forced.
CallStep(p) == (LockFileStep(p) \/ LaunchStep(p)) /\ pc'[p] \notin {pc[p], "exited"}

\* The calls of InitLaunch whose control flow differs: one candidate port for
\* the caller, a command that serializes and one that does not, no relay socket
\* or all of them.
InitLaunchFair ==
  /\ InitLaunch
  /\ server_port[1] = 5000
  /\ command[1] \in {<<"l", "s">>, <<"x", BadByte>>}
  /\ socket_paths \in {{}, DYNAMIC_PORT_RANGE}

SpecLaunchFair ==
  InitLaunchFair /\ [][NextLaunch]_vars /\ \A p \in Procs : WF_vars(CallStep(p))

\* ---------------------------------------------- reading a locked lock file
\* Characters of the contents drawn: digits on both sides of 1024, a sign of
\* each kind, a blank and a letter.
Alphabet == {"0", "1", "2", "4", "5", " ", "+", "-", "x"}

RECURSIVE Texts(_)
Texts(n) ==
  IF n = 0 THEN {<<>>}
  ELSE LET shorter == Texts(n - 1)
       IN shorter \cup {Append(t, c) : t \in {u \in shorter : Len(u) = n - 1},
                                        c \in Alphabet}

Contents ==
  Texts(MaxDataLen)
    \cup { <<"5", "5", "1", "2", "3">>, <<" ", "5", "5", "1", "2", "3">>,
           <<"5", "5", "1", "2", "3", "\n">>, <<BadByte, "5", "5", "1", "2", "3">>,
           <<"0", "0", "5", "5", "1", "2", "3">> }

\* Process 1 calls lock_file while the highest-numbered process holds the lock
\* as leader; the file holds any of Contents.
InitParse ==
  /\ pc = [p \in Procs |-> IF p = 1 THEN "lf_exists"
                           ELSE IF p = NumProcs THEN "lf_ret" ELSE "exited"]
  /\ server_port \in [Procs -> CandidatePorts]
  /\ \A p \in Procs : server_port[p] = server_port[1]
  /\ XDG_RUNTIME_DIR = [p \in Procs |-> TRUE]
  /\ lock_exists = TRUE
  /\ lock_data \in Contents
  /\ flocked = [p \in Procs |-> p # 1 /\ p = NumProcs]
  /\ data = [p \in Procs |-> None]
  /\ lf_ret = [p \in Procs |-> IF p # 1 /\ p = NumProcs THEN LfOk(TRUE, None)
                               ELSE NoReturn]
  /\ file_ops = [p \in Procs |-> IF p # 1 /\ p = NumProcs
                                   THEN {"open", "flock", "set_len", "write"}
                                   ELSE {}]
  /\ faults = 0
  /\ InitNoLaunch

NextParse == \E p \in Procs : LfExists(p) \/ LfFlock(p) \/ LfRead(p)

SpecParse == InitParse /\ [][NextParse]_vars

\* -------------------------------------------- racing launch_or_lock callers
\* Candidate ports above 1024.
RacePorts == {c \in CandidatePorts : c > PortFloor}

\* Every process calls launch_or_lock (KRUN_SERVER_PORT unset) with a candidate
\* port above 1024; the lock file is missing or was left behind, unlocked, by
\* an earlier leader with such a port.  The calls are followed up to the
\* decision of 129-166: a process that goes on to forward its request stays at
\* the call of wrapped_launch, which does not touch the lock file.
InitRace ==
  /\ pc = [p \in Procs |-> "launch_or_lock"]
  /\ server_port \in [Procs -> RacePorts]
  /\ XDG_RUNTIME_DIR = [p \in Procs |-> TRUE]
  /\ \/ lock_exists = FALSE /\ lock_data = <<>>
     \/ lock_exists = TRUE /\ \E c \in RacePorts : lock_data = Display(c)
  /\ flocked = [p \in Procs |-> FALSE]
  /\ data = [p \in Procs |-> None]
  /\ lf_ret = [p \in Procs |-> NoReturn]
  /\ file_ops = [p \in Procs |-> {}]
  /\ faults = 0
  /\ InitNoLaunch

NextRace == \E p \in Procs : LaunchOrLock(p) \/ LockFileStep(p) \/ LolMatch(p)

SpecRace == InitRace /\ [][NextRace]_vars

\* --------------------------------------------- concurrent interactive launches
\* Every process is told the server port (119-127) and launches an interactive
\* command; the relay sockets of 50000 and 50001 exist or none does.  A relay
\* creates its socket path in a step of its own, after it was spawned.
InitRelay ==
  /\ pc = [p \in Procs |-> "launch_or_lock"]
  /\ server_port = [p \in Procs |-> 5000]
  /\ XDG_RUNTIME_DIR = [p \in Procs |-> TRUE]
  /\ lock_exists = FALSE
  /\ lock_data = <<>>
  /\ flocked = [p \in Procs |-> FALSE]
  /\ data = [p \in Procs |-> None]
  /\ lf_ret = [p \in Procs |-> NoReturn]
  /\ file_ops = [p \in Procs |-> {}]
  /\ faults = 0
  /\ KRUN_SERVER_PORT = [p \in Procs |-> Set(<<"5", "0", "0", "0">>)]
  /\ command = [p \in Procs |-> <<"l", "s">>]
  /\ command_args = [p \in Procs |-> <<>>]
  /\ env = [p \in Procs |-> <<>>]
  /\ interactive = [p \in Procs |-> TRUE]
  /\ mode = [p \in Procs |-> ""]
  /\ port = [p \in Procs |-> None]
  /\ prepared = [p \in Procs |-> None]
  /\ tries = [p \in Procs |-> 0]
  /\ attempts = [p \in Procs |-> 0]
  /\ outcomes = [p \in Procs |-> <<>>]
  /\ request = [p \in Procs |-> None]
  /\ stream = [p \in Procs |-> <<>>]
  /\ received = [p \in Procs |-> None]
  /\ reply = [p \in Procs |-> None]
  /\ rl_ret = [p \in Procs |-> None]
  /\ children = [p \in Procs |-> <<>>]
  /\ socket_paths \in {{}, {RangeStart, RangeStart + 1}}
  /\ socat_ret = [p \in Procs |-> NoSocat]
  /\ result = [p \in Procs |-> NoResult]

NextRelay ==
  \E p \in Procs :
    \/ LaunchOrLock(p)
    \/ WrappedLaunch(p)
    \/ StartSocat(p)
    \/ StartSocatFail(p)
    \/ RequestLaunch(p)
    \/ SocatWait(p)
    \/ RelayBind(p)

SpecRelay == InitRelay /\ [][NextRelay]_vars

\* ------------------------------------------- escaping the command (76-88)
\* Characters of the commands drawn: every character of the match at 80, a
\* letter and a blank.
EscapeAlphabet == {":", ",", "!", "\"", "'", "\\", "(", "[", "{", "a", " "}

RECURSIVE TextsOver(_, _)
TextsOver(alphabet, n) ==
  IF n = 0 THEN {<<>>}
  ELSE LET shorter == TextsOver(alphabet, n - 1)
       IN shorter \cup {Append(t, c) : t \in {u \in shorter : Len(u) = n - 1},
                                        c \in alphabet}

EscapeInputs ==
  TextsOver(EscapeAlphabet, MaxCmdLen)
    \cup { <<"a", ":", "b", ",", "c", "!", "d">>, <<"\\", "\\", "a", "{", "{", "b">> }

\* Process 1 is told the server port and launches an interactive command with
\* no arguments, so that the text escaped at 104 is the command itself; no
\* relay socket exists yet.
InitEscape ==
  /\ pc = [p \in Procs |-> IF p = 1 THEN "launch_or_lock" ELSE "exited"]
  /\ server_port = [p \in Procs |-> 5000]
  /\ XDG_RUNTIME_DIR = [p \in Procs |-> TRUE]
  /\ lock_exists = FALSE
  /\ lock_data = <<>>
  /\ flocked = [p \in Procs |-> FALSE]
  /\ data = [p \in Procs |-> None]
  /\ lf_ret = [p \in Procs |-> NoReturn]
  /\ file_ops = [p \in Procs |-> {}]
  /\ faults = 0
  /\ KRUN_SERVER_PORT = [p \in Procs |-> IF p = 1 THEN Set(<<"5", "0", "0", "0">>)
                                         ELSE Unset]
  /\ \E c \in EscapeInputs : command = [p \in Procs |-> IF p = 1 THEN c ELSE <<>>]
  /\ command_args = [p \in Procs |-> <<>>]
  /\ env = [p \in Procs |-> <<>>]
  /\ interactive = [p \in Procs |-> p = 1]
  /\ mode = [p \in Procs |-> ""]
  /\ port = [p \in Procs |-> None]
  /\ prepared = [p \in Procs |-> None]
  /\ tries = [p \in Procs |-> 0]
  /\ attempts = [p \in Procs |-> 0]
  /\ outcomes = [p \in Procs |-> <<>>]
  /\ request = [p \in Procs |-> None]
  /\ stream = [p \in Procs |-> <<>>]
  /\ received = [p \in Procs |-> None]
  /\ reply = [p \in Procs |-> None]
  /\ rl_ret = [p \in Procs |-> None]
  /\ children = [p \in Procs |-> <<>>]
  /\ socket_paths = {}
  /\ socat_ret = [p \in Procs |-> NoSocat]
  /\ result = [p \in Procs |-> NoResult]

NextEscape == \E p \in Procs : LaunchOrLock(p) \/ WrappedLaunch(p) \/ StartSocat(p)

SpecEscape == InitEscape /\ [][NextEscape]_vars

\* ------------------------------------------------------------------ claims
\* p has a lock file returned by lock_file and has not dropped it.
HoldsReturnedFile(p) == lf_ret[p].tag = "Ok" /\ lf_ret[p].file /\ pc[p] # "exited"

\* p returned from lock_file with the Busy outcome (Ok, no file).
ReturnedBusy(p) ==
  pc[p] # "exited" /\ lf_ret[p].tag = "Ok" /\ ~lf_ret[p].file

\* C1: among the processes calling lock_file on the same path, a process that
\* keeps a returned lock file open is the only one holding the flock and the
\* only one with a returned file; a returned file that is open is locked.
C1_AtMostOneLockFile ==
  \A p, q \in Procs :
    /\ HoldsReturnedFile(p) => flocked[p]
    /\ (HoldsReturnedFile(p) /\ (flocked[q] \/ HoldsReturnedFile(q))) => p = q

\* C1 witness: one process holds the returned file while another one, which
\* raced with it, has returned Busy.
C1_Witness ==
  \E p, q \in Procs :
    /\ p # q
    /\ HoldsReturnedFile(p)
    /\ ReturnedBusy(q)

\* C2: a process that loses the race gets the Busy outcome, and the lock taken
\* on a file seen as missing never fails (no file-system failure involved).
C2_LosersGetBusy ==
  \A p \in Procs :
    /\ lf_ret[p].err # ErrNewLock
    /\ (faults = 0 /\ lf_ret[p].tag # "none") => lf_ret[p].tag = "Ok"

\* C3: when lock_file returns Busy with Some(port), a process holds the lock at
\* the moment of the read and port is that process's candidate port.
C3_BusyPortIsHoldersPort ==
  [][\A p \in Procs :
       (pc[p] = "lf_read" /\ pc'[p] = "lf_ret" /\ lf_ret'[p].port # None)
         => \E h \in Procs : flocked[h] /\ lf_ret'[p].port = Some(server_port[h])]_vars

AllConnection(o, n) == \A i \in 1 .. n : o[i] = "Connection"

\* C4: in the LosingCandidate path a Connection error is retried up to 3 more
\* times: at most 4 attempts; fewer than 4 Connection errors in a row leave the
\* call running (the next attempt follows); 4 of them end it with an error after
\* exactly 4 attempts; k <= 3 of them followed by a success end it with
\* LaunchRequested after exactly k + 1 attempts.
C4_RetryBudget ==
  \A p \in Procs :
    mode[p] = "LosingCandidate" =>
      LET o == outcomes[p]
          n == Len(o)
      IN /\ attempts[p] <= 4
         /\ n <= 4
         /\ (n >= 1 /\ n < 4 /\ AllConnection(o, n)) =>
               /\ pc[p] # "done"
               /\ result[p].tag = "none"
               /\ attempts[p] \in {n, n + 1}
         /\ (n = 4 /\ AllConnection(o, 4)) =>
               /\ pc[p] = "done"
               /\ result[p].tag = "Err"
               /\ attempts[p] = 4
         /\ (n >= 1 /\ o[n] = "Ok") =>
               /\ AllConnection(o, n - 1)
               /\ pc[p] = "done"
               /\ result[p].tag = "LaunchRequested"
               /\ attempts[p] = n

\* C4 witness: three Connection errors, then a success on the fourth attempt.
C4_Witness ==
  \E p \in Procs :
    /\ mode[p] = "LosingCandidate"
    /\ outcomes[p] = <<"Connection", "Connection", "Connection", "Ok">>
    /\ result[p].tag = "LaunchRequested"

\* C5: in the LosingCandidate path an attempt that ends with an error other
\* than a Connection error is the last one: the call has ended with an error
\* and no attempt follows, however many attempts came before.
C5_OtherErrorsAreFatal ==
  \A p \in Procs :
    mode[p] = "LosingCandidate" =>
      \A i \in 1 .. Len(outcomes[p]) :
        outcomes[p][i] \notin {"Connection", "Ok"} =>
          /\ i = Len(outcomes[p])
          /\ pc[p] = "done"
          /\ result[p].tag = "Err"
          /\ attempts[p] = i

\* C5 witness: a server-reported error on the third attempt ended the call.
C5_Witness ==
  \E p \in Procs :
    /\ mode[p] = "LosingCandidate"
    /\ outcomes[p] = <<"Connection", "Connection", "Server">>
    /\ pc[p] = "done"
    /\ result[p].tag = "Err"

\* C6: when the response line read is OK followed by its line terminator,
\* request_launch returns success, and the document the leader got carries the
\* caller's command, arguments in order and environment keys.
C6_OkLineIsSuccess ==
  \A p \in Procs :
    reply[p] = Some(<<"O", "K", "\n">>) =>
      /\ rl_ret[p] = Some("Ok")
      /\ received[p] # None
      /\ received[p][1][1][2] = request[p][1].command
      /\ received[p][1][2][2] = request[p][1].command_args
      /\ DOMAIN received[p][1][3][2] = DOMAIN request[p][1].env

\* No response line was obtained on p's last connection: an I/O call failed, or
\* the peer closed before sending anything (read_line read nothing).
NoResponseLine(p) ==
  /\ rl_ret[p] # None
  /\ stream[p] # <<"connect", "close">>
  /\ reply[p] \in {None, Some(<<>>)}

\* C7: a request_launch call that ends without a response line, other than by
\* a serialization error, returns a Connection error.
C7_NoLineIsConnection ==
  \A p \in Procs : NoResponseLine(p) => rl_ret[p] = Some("Connection")

\* C8 (as stated): with KRUN_SERVER_PORT set, the call ends after exactly one
\* launch attempt, in LaunchRequested or an error, without touching the lock
\* file.
C8_SetPortOneAttempt ==
  \A p \in Procs :
    (KRUN_SERVER_PORT[p].tag # "NotPresent" /\ pc[p] = "done") =>
      /\ attempts[p] = 1
      /\ file_ops[p] = {}
      /\ result[p].tag \in {"LaunchRequested", "Err"}

\* C8 (amended): with KRUN_SERVER_PORT set to Unicode text, the lock file is
\* never touched, LockAcquired is never returned, there is at most one attempt
\* and no retry; the call ends with no attempt only on an unparseable port or a
\* failed environment map, and after its one attempt it returns
\* LaunchRequested exactly if the attempt succeeded, an error otherwise.
C8_FollowerOnly ==
  \A p \in Procs :
    KRUN_SERVER_PORT[p].tag = "Ok" =>
      /\ file_ops[p] = {}
      /\ ~flocked[p]
      /\ lf_ret[p].tag = "none"
      /\ result[p].tag # "LockAcquired"
      /\ attempts[p] <= 1
      /\ tries[p] = 0
      /\ pc[p] = "done" =>
           /\ result[p].tag \in {"LaunchRequested", "Err"}
           /\ attempts[p] = 0 => result[p].err \in {ErrParsePort, ErrEnv}
           /\ attempts[p] = 1 =>
                /\ Len(outcomes[p]) = 1
                /\ result[p].tag = "LaunchRequested" <=> outcomes[p][1] = "Ok"
                /\ result[p].tag = "Err" => result[p].err = ErrLaunch

\* C8 witness: the port was set, the one attempt failed with a Connection error
\* and the call ended with an error.
C8_Witness ==
  \E p \in Procs :
    /\ KRUN_SERVER_PORT[p].tag = "Ok"
    /\ pc[p] = "done"
    /\ attempts[p] = 1
    /\ outcomes[p] = <<"Connection">>
    /\ result[p].tag = "Err"

\* C9: when wrapped_launch has returned (the call ended, or the next attempt is
\* about to start), wait() has been called on every relay it spawned.
C9_RelaysWaited ==
  \A p \in Procs :
    pc[p] \in {"wrapped_launch", "done"} =>
      \A i \in 1 .. Len(children[p]) : children[p][i].waited # "no"

DecimalDigits == {"0", "1", "2", "3", "4", "5", "6", "7", "8", "9"}

DigitOf ==
  ("0" :> 0) @@ ("1" :> 1) @@ ("2" :> 2) @@ ("3" :> 3) @@ ("4" :> 4) @@ ("5" :> 5)
    @@ ("6" :> 6) @@ ("7" :> 7) @@ ("8" :> 8) @@ ("9" :> 9)

\* The digits of a text with one leading "+" removed.
Unsigned(t) == IF t # <<>> /\ t[1] = "+" THEN Tail(t) ELSE t

IsDecimal(t) ==
  /\ Unsigned(t) # <<>>
  /\ \A i \in 1 .. Len(Unsigned(t)) : Unsigned(t)[i] \in DecimalDigits

RECURSIVE Power10(_)
Power10(k) == IF k = 0 THEN 1 ELSE 10 * Power10(k - 1)

\* The number a digit string denotes: the sum of digit * 10^position.
RECURSIVE Denotes(_)
Denotes(ds) ==
  IF ds = <<>> THEN 0
  ELSE DigitOf[Head(ds)] * Power10(Len(ds) - 1) + Denotes(Tail(ds))

\* C10: after a failed lock attempt the port reported is decided by the contents
\* read alone: Some(v) exactly when they are a decimal number v > 1024, None
\* otherwise; "55123" gives 55123 and "42" gives None.
C10_DiscoveredPort ==
  \A p \in Procs :
    (pc[p] = "lf_ret" /\ data[p] # None /\ lf_ret[p].tag = "Ok") =>
      LET d == data[p][1]
          r == lf_ret[p].port
      IN /\ ~lf_ret[p].file
         /\ r # None =>
              /\ IsDecimal(d)
              /\ r[1] = Denotes(Unsigned(d))
              /\ r[1] > 1024
         /\ r = None => (~IsDecimal(d) \/ Denotes(Unsigned(d)) <= 1024)
         /\ d = <<"5", "5", "1", "2", "3">> => r = Some(55123)
         /\ d = <<"4", "2">> => r = None

\* C10 witness: the contents "42" were read and no port was reported.
C10_Witness ==
  \E p \in Procs :
    /\ pc[p] = "lf_ret"
    /\ data[p] = Some(<<"4", "2">>)
    /\ lf_ret[p] = LfOk(FALSE, None)

\* C11: when a lock_file call that acquired the lock returns, the lock file
\* holds exactly the decimal text of that call's candidate port, whatever it
\* held before, in the branch that created the file and in the branch that
\* opened an existing one.
C11_FullOverwrite ==
  [][\A p \in Procs :
       (pc[p] # "lf_ret" /\ pc'[p] = "lf_ret" /\ lf_ret'[p].tag = "Ok" /\ lf_ret'[p].file)
         => /\ lock_data' = Display(server_port[p])
            /\ {"set_len", "write"} \subseteq file_ops'[p]
            /\ ("create" \in file_ops'[p] \/ "open" \in file_ops'[p])]_vars

\* C11 witness: the file held "60000" (another process read it while the new
\* leader already had the lock), the new leader's candidate port is 5000 and
\* the file it returned holds exactly "5000".
C11_Witness ==
  \E p, q \in Procs :
    /\ p # q
    /\ data[q] = Some(<<"6", "0", "0", "0", "0">>)
    /\ server_port[p] = 5000
    /\ HoldsReturnedFile(p)
    /\ "open" \in file_ops[p]
    /\ lock_data = <<"5", "0", "0", "0">>

\* C12: a start_socat call that returns a port returns the lowest port of
\* 50000..50199 whose socket path does not exist (50002 when exactly 50000 and
\* 50001 exist) and has spawned exactly one relay, on that port; a call that
\* returns an error has spawned none; when all 200 paths exist the call returns
\* an error, which is "Ran out of ports." unless the runtime directory or the
\* socat binary is missing, and that error is returned in no other case.
C12_FirstFreePort ==
  [][\A p \in Procs :
       (pc[p] = "start_socat" /\ pc'[p] # "start_socat") =>
         LET r == socat_ret'[p]
             full == \A m \in 50000 .. 50199 : m \in socket_paths
         IN /\ r.tag \in {"Ok", "Err"}
            /\ r.tag = "Ok" =>
                 /\ r.port[1] \in 50000 .. 50199
                 /\ r.port[1] \notin socket_paths
                 /\ \A m \in 50000 .. (r.port[1] - 1) : m \in socket_paths
                 /\ socket_paths = {50000, 50001} => r.port[1] = 50002
                 /\ children'[p] =
                      Append(children[p], [port |-> r.port[1], waited |-> "no"])
            /\ r.tag = "Err" => children'[p] = children[p]
            /\ full => /\ r.tag = "Err"
                       /\ r.err \in {ErrOutOfPorts, ErrSocatRuntimeDir, ErrNoSocat}
            /\ r.err = ErrOutOfPorts => full
            /\ \A q \in Procs \ {p} : children'[q] = children[q]]_vars

\* C12 witness: with the socket paths of 50000 and 50001 existing, start_socat
\* returned 50002 and the one relay spawned is on 50002.
C12_Witness ==
  \E p \in Procs :
    /\ {50000, 50001} \subseteq socket_paths
    /\ socat_ret[p] = SocatOk(50002)
    /\ children[p] = <<[port |-> 50002, waited |-> "no"]>>

\* The text between "exec:" and ",pty,setsid,stderr" in the second argument of
\* the request p is about to send.
EscapedText(p) ==
  LET arg == request[p][1].command_args[2]
  IN SubSeq(arg, Len(ExecPrefix) + 1, Len(arg) - Len(ExecSuffix))

\* The nine characters the claim lists.
Listed == {":", ",", "!", "\"", "'", "\\", "(", "[", "{"}

\* C13: the escaped text is the input with one backslash before each listed
\* character and every character kept, in order: character i of the input is at
\* position i + (listed characters among the first i), a listed one has a
\* backslash just before it, and the length is the input's plus the number of
\* listed characters; "a:b,c!d" gives a\:b\,c\!d.
C13_Escaped ==
  \A p \in Procs :
    (pc[p] = "request_launch" /\ interactive[p] /\ command_args[p] = <<>>) =>
      LET in == command[p]
          out == EscapedText(p)
          extra(i) == Cardinality({j \in 1 .. i : in[j] \in Listed})
          pos(i) == i + extra(i)
      IN /\ Len(out) = Len(in) + extra(Len(in))
         /\ \A i \in 1 .. Len(in) :
              /\ out[pos(i)] = in[i]
              /\ in[i] \in Listed => out[pos(i) - 1] = "\\"
         /\ in = <<"a", ":", "b", ",", "c", "!", "d">> =>
              out = <<"a", "\\", ":", "b", "\\", ",", "c", "\\", "!", "d">>

\* C13 witness: the command a:b,c!d was escaped into the request.
C13_Witness ==
  \E p \in Procs :
    /\ pc[p] = "request_launch"
    /\ command[p] = <<"a", ":", "b", ",", "c", "!", "d">>
    /\ EscapedText(p) = <<"a", "\\", ":", "b", "\\", ",", "c", "\\", "!", "d">>

\* C14: with every candidate port above 1024 and no file-system failure, no
\* lock_file call returns Busy with no port and no launch_or_lock call ends in
\* the "couldn't find its server port" error.
C14_NoBusyNone ==
  ((\A q \in Procs : server_port[q] > 1024) /\ faults = 0) =>
    \A p \in Procs :
      /\ ~(lf_ret[p].tag = "Ok" /\ ~lf_ret[p].file /\ lf_ret[p].port = None)
      /\ result[p].err # ErrNoPort

\* The steps of one connection, and the same steps failing.
Steps == <<"connect", "write_json", "write_eom", "flush", "read_line">>
StepsErr ==
  <<"connect:err", "write_json:err", "write_eom:err", "flush:err", "read_line:err">>

\* ops is a run of the steps in order from the first one, each once, stopped
\* by the first failing step or complete, and closed if the connect succeeded.
OrderedOnce(ops) ==
  /\ ops # <<>>
  /\ IF ops[1] = "connect:err" THEN Len(ops) = 1
     ELSE /\ Len(ops) \in 2 .. 6
          /\ ops[Len(ops)] = "close"
          /\ \A i \in 1 .. (Len(ops) - 1) :
               \/ ops[i] = Steps[i]
               \/ ops[i] = StepsErr[i] /\ i = Len(ops) - 1

\* C15: every call of request_launch opens its own connection and performs on
\* it, in this order and once each, connect, write of the document, write of
\* the sentinel, flush, read of one line, close, stopping at the first step
\* that fails; a call that got a response line did all six; what the leader
\* got by then is the whole document of the request of this call.
C15_StepsInOrder ==
  [][\A p \in Procs :
       (pc[p] = "request_launch" /\ pc'[p] # "request_launch") =>
         /\ OrderedOnce(stream'[p])
         /\ rl_ret'[p] \in {Some("Ok"), Some("Server")} =>
              /\ stream'[p] = Steps \o <<"close">>
              /\ reply'[p] # None
         /\ received'[p] # None =>
              /\ SubSeq(stream'[p], 1, 4) = SubSeq(Steps, 1, 4)
              /\ received'[p] = to_string(request[p][1])
         /\ rl_ret'[p] = Some("Json") => stream'[p] = <<"connect", "close">>]_vars

\* C15 witness: a retry: the second call of request_launch ran all the steps
\* on its own connection and the leader got the whole document again.
C15_Witness ==
  \E p \in Procs :
    /\ outcomes[p] = <<"Connection", "Ok">>
    /\ stream[p] = <<"connect", "write_json", "write_eom", "flush", "read_line", "close">>
    /\ received[p] = to_string(request[p][1])
    /\ received[p] # None

\* Positions inside lock_file.
InLockFile(at) ==
  at \in {"lf_exists", "lf_create", "lf_flock_new", "lf_flock", "lf_read",
          "lf_set_len", "lf_write", "lf_ret"}

\* A call has a result exactly when it has ended, the result is one of the
\* three kinds, and there are at most 4 launch attempts.
C16_Outcome ==
  \A p \in Procs :
    /\ attempts[p] <= 4
    /\ Len(outcomes[p]) <= 4
    /\ pc[p] = "done" => result[p].tag \in {"LaunchRequested", "LockAcquired", "Err"}
    /\ pc[p] \notin {"done", "exited"} => result[p].tag = "none"

\* The result, once there, stays; lock_file is entered from the start of the
\* call only, so at most once; after the first launch attempt the call is never
\* inside lock_file again and does nothing more to the lock file.
C16_Steps ==
  \A p \in Procs :
    /\ result[p].tag # "none" => result'[p] = result[p]
    /\ pc[p] = "done" => pc'[p] \in {"done", "exited"}
    /\ pc'[p] = "launch_or_lock" => pc[p] = "launch_or_lock"
    /\ InLockFile(pc'[p]) => (InLockFile(pc[p]) \/ pc[p] = "launch_or_lock")
    /\ pc'[p] = "lf_exists" => pc[p] \in {"launch_or_lock", "lf_exists"}
    /\ attempts[p] >= 1 => (~InLockFile(pc'[p]) /\ file_ops'[p] = file_ops[p])

\* C16: every launch_or_lock call ends in exactly one of LaunchRequested,
\* LockAcquired or an error, after at most one call of lock_file and at most 4
\* launch attempts, never returns to lock acquisition after a forward, and a
\* non-interactive call whose steps all return does end.
C16_Terminates ==
  /\ []C16_Outcome
  /\ [][C16_Steps]_vars
  /\ \A p \in Procs :
       (pc[p] = "launch_or_lock" /\ ~interactive[p]) ~> (pc[p] \in {"done", "exited"})

\* C16 witness: a non-interactive call that went through lock_file, found the
\* port and ended with an error after 4 launch attempts.
C16_Witness ==
  \E p \in Procs :
    /\ ~interactive[p]
    /\ "read" \in file_ops[p]
    /\ pc[p] = "done"
    /\ attempts[p] = 4
    /\ result[p].tag = "Err"

\* out is in with one backslash before each listed character.
IsEscaped(in, out) ==
  LET extra(i) == Cardinality({j \in 1 .. i : in[j] \in Listed})
  IN /\ Len(out) = Len(in) + extra(Len(in))
     /\ \A i \in 1 .. Len(in) :
          /\ out[i + extra(i)] = in[i]
          /\ in[i] \in Listed => out[i + extra(i) - 1] = "\\"

\* The strings one after the other with a single blank between neighbours.
RECURSIVE SpaceSeparated(_)
SpaceSeparated(strs) ==
  IF Len(strs) = 0 THEN <<>>
  ELSE IF Len(strs) = 1 THEN strs[1]
  ELSE SpaceSeparated(SubSeq(strs, 1, Len(strs) - 1)) \o <<" ">> \o strs[Len(strs)]

\* The request p is about to send is the relay request for the command text
\* cmd: socat with the two arguments vsock:2:<port> and
\* exec:<escaped cmd and args>,pty,setsid,stderr, the port being the one
\* start_socat returned, on which the relay was spawned.
IsRelayRequest(p, cmd) ==
  LET r == request[p][1]
      a1 == r.command_args[1]
      a2 == r.command_args[2]
      n == socat_ret[p].port[1]
  IN /\ r.command = <<"s", "o", "c", "a", "t">>
     /\ Len(r.command_args) = 2
     /\ socat_ret[p].tag = "Ok"
     /\ children[p] # <<>>
     /\ children[p][Len(children[p])].port = n
     /\ Len(children[p]) = attempts[p]
     /\ SubSeq(a1, 1, 8) = <<"v", "s", "o", "c", "k", ":", "2", ":">>
     /\ IsDecimal(SubSeq(a1, 9, Len(a1)))
     /\ a1[9] \notin {"0", "+"}
     /\ Denotes(SubSeq(a1, 9, Len(a1))) = n
     /\ SubSeq(a2, 1, 5) = <<"e", "x", "e", "c", ":">>
     /\ SubSeq(a2, Len(a2) - 17, Len(a2)) =
          <<",", "p", "t", "y", ",", "s", "e", "t", "s", "i", "d", ",",
            "s", "t", "d", "e", "r", "r">>
     /\ IsEscaped(SpaceSeparated(<<cmd>> \o command_args[p]),
                  SubSeq(a2, 6, Len(a2) - 18))
     /\ r.env = prepared[p][1]

\* The request p is about to send has the command, arguments and environment
\* wrapped_launch was called with, and p never spawned a relay.
IsPlainRequest(p) ==
  /\ request[p][1].command = command[p]
  /\ request[p][1].command_args = command_args[p]
  /\ request[p][1].env = prepared[p][1]
  /\ children[p] = <<>>
  /\ socat_ret[p].tag = "none"

\* C17 (as stated): a non-interactive wrapped_launch sends the request
\* unchanged and spawns no relay; an interactive one sends the relay request
\* built from the original command.
C17_RequestAsGiven ==
  \A p \in Procs :
    pc[p] = "request_launch" =>
      IF interactive[p] THEN IsRelayRequest(p, command[p]) ELSE IsPlainRequest(p)

\* C17 (amended): as stated, the command of an interactive launch being the
\* original command converted to text lossily (each byte that is not UTF-8
\* becomes U+FFFD).
C17_RequestRewritten ==
  \A p \in Procs :
    pc[p] = "request_launch" =>
      IF interactive[p]
        THEN IsRelayRequest(p, [i \in 1 .. Len(command[p]) |->
                                  IF command[p][i] = BadByte THEN "<FFFD>"
                                  ELSE command[p][i]])
        ELSE IsPlainRequest(p)

\* C17 witness: the interactive launch of a:b with the arguments c,d and ! is
\* about to send socat vsock:2:50002 exec:a\:b c\,d \!,pty,setsid,stderr.
C17_Witness ==
  \E p \in Procs :
    /\ pc[p] = "request_launch"
    /\ interactive[p]
    /\ command[p] = <<"a", ":", "b">>
    /\ command_args[p] = << <<"c", ",", "d">>, <<"!">> >>
    /\ request[p][1].command_args =
         << <<"v", "s", "o", "c", "k", ":", "2", ":", "5", "0", "0", "0", "2">>,
            <<"e", "x", "e", "c", ":", "a", "\\", ":", "b", " ", "c", "\\", ",", "d",
              " ", "\\", "!", ",", "p", "t", "y", ",", "s", "e", "t", "s", "i", "d",
              ",", "s", "t", "d", "e", "r", "r">> >>

\* C18: a call that returned LockAcquired returned the file, which holds the
\* lock as long as the caller keeps it, with the command, command_args and env
\* it was called with; it opened no connection, built no request, made no
\* launch attempt and spawned no relay.
C18_LockAcquiredFrame ==
  \A p \in Procs :
    (pc[p] = "done" /\ result[p].tag = "LockAcquired") =>
      /\ result[p].lock_file
      /\ flocked[p]
      /\ \A q \in Procs \ {p} : ~flocked[q]
      /\ result[p].command = command[p]
      /\ result[p].command_args = command_args[p]
      /\ result[p].env = env[p]
      /\ result[p].err = ""
      /\ stream[p] = <<>>
      /\ rl_ret[p] = None
      /\ received[p] = None
      /\ request[p] = None
      /\ prepared[p] = None
      /\ attempts[p] = 0
      /\ children[p] = <<>>
      /\ socat_ret[p].tag = "none"

\* C18 witness: an interactive call with a command that would need escaping
\* and an env entry created the lock file and returned LockAcquired.
C18_Witness ==
  \E p \in Procs :
    /\ pc[p] = "done"
    /\ interactive[p]
    /\ "create" \in file_ops[p]
    /\ result[p].tag = "LockAcquired"
    /\ result[p].command = <<"a", ":", "b">>
    /\ result[p].env = << [key |-> "FOO", value |-> Some("1")],
                          [key |-> "PATH", value |-> None] >>

\* C19: the contents of the lock file change only in a step of a process that
\* holds the exclusive lock, and a lock file that exists is never removed.
C19_OnlyHolderWrites ==
  [][/\ lock_exists => lock_exists'
     /\ lock_data' # lock_data =>
          \E h \in Procs : flocked[h] /\ pc'[h] # pc[h]]_vars

\* C20: two different relays that have both been spawned and not reaped are
\* never on the same port, whichever processes and attempts spawned them.
C20_DistinctRelayPorts ==
  \A p, q \in Procs :
    \A i \in 1 .. Len(children[p]), j \in 1 .. Len(children[q]) :
      (<<p, i>> # <<q, j>>
         /\ children[p][i].waited # "yes"
         /\ children[q][j].waited # "yes")
        => children[p][i].port # children[q][j].port

====
